---- MODULE Spec2Model ----
(***************************************************************************)
(* Tuiporal: the command/result engine of src/app.rs.                      *)
(*                                                                         *)
(* Two units of execution are modelled: the main loop (App::run, with      *)
(* App::process_results and App::handle_key) and the worker task spawned   *)
(* by App::spawn_task_handler.  They share two unbounded FIFO channels,    *)
(* cmdQ (command_tx -> command_rx) and resQ (result_tx -> result_rx).      *)
(*                                                                         *)
(* Conventions: Option<T> is a sequence of length 0 (None) or 1 (Some);    *)
(* a String that is typed by the operator is a sequence of characters; a   *)
(* formatted message is the tuple of its parts.  Pure rendering state      *)
(* (frame_count, the scroll offsets of the help screen and of the event    *)
(* overlay, query_history) is not part of the state.                       *)
(***************************************************************************)
EXTENDS Integers, Sequences, FiniteSets, TLC

\* ---------------------------------------------------------------- bounds
\* commands that may be enqueued in one run (App::new's one included)
MaxCmds == 4
\* keystrokes the operator may type in one run
MaxKeys == 3
\* longest text typed into the search box or into a dialog
MaxText == 1
\* most workflows on one page returned by the server
MaxItems == 1
\* most history events returned for one workflow
MaxEvents == 1
\* most namespaces returned by the server
MaxNamespaces == 1
\* 'f' presses in one filter-cycle run
MaxPresses == 6
\* commands and results in the channels when the operator presses 'f' again
MaxQueued == 1
\* most rows of a list in the states the browsing runs start from
MaxRows == 3
\* most whole seconds since the last refresh in those states
MaxSecs == 7
\* keystrokes in one browsing run
MaxMoves == 2
\* keystrokes in one inspecting run
MaxDetailKeys == 4

\* ------------------------------------------------------ program constants
auto_refresh_interval_secs == 5

None == << >>
Some(x) == << x >>

Screens == {"Workflows", "Namespaces", "WorkflowDetail", "Help"}

\* Keys the event source can deliver.  "a" doubles as the one printable
\* character typed into text fields; "Tab" stands for any unmapped key.
Keys ==
  {"q", "Esc", "1", "2", "?", "/", "f", "c", "a", "j", "k", "r", "n", "p",
   "Enter", "t", "x", "s", "Backspace", "PageDown", "PageUp", "Tab",
   "Down", "Up", "Right", "Left"}

CharKeys ==
  {"q", "1", "2", "?", "/", "f", "c", "a", "j", "k", "r", "n", "p",
   "t", "x", "s"}

\* Keys delivered while a text field has the focus.
TypingKeys == {"a", "Backspace", "Enter", "Esc", "Tab"}

\* Causes a failed remote call can report.
Causes == {"unavailable"}

\* The namespaces the server knows, in the order it lists them.
NamespaceNames == << "other", "default", "staging", "testing", "production" >>

\* ----------------------------------------------------------- remote data
Execution(i) == [workflow_id |-> i, run_id |-> i]
Workflow(i) == [execution |-> Some(Execution(i))]
\* WorkflowExecutionInfo::default()
DefaultWorkflow == [execution |-> None]

\* a page of n workflows, in server order
Page(n) == [i \in 1..n |-> Workflow(i)]
\* n history events
Events(n) == [i \in 1..n |-> i]
\* the first n namespaces
NamespacePage(n) == [i \in 1..n |-> [namespace_info |-> Some([name |-> NamespaceNames[i]])]]

\* An opaque continuation token: empty, or one value that only the server
\* can read (it names the query and namespace it continues).
Token(q, nsp) == << [q |-> q, nsp |-> nsp] >>

VARIABLES
  running,            \* App.running
  current_screen,     \* App.current_screen
  wl,                 \* App.workflow_list_state
  dt,                 \* App.workflow_detail_state
  nl,                 \* App.namespace_list_state
  current_namespace,  \* App.current_namespace
  connection_status,  \* App.connection_status
  mpc,                \* position of App::run inside one iteration
  cmdQ,               \* command channel
  resQ,               \* result channel
  wpc,                \* position of the worker task
  wcmd,               \* the command the worker is executing
  workflow_info,      \* worker local of the ViewWorkflowDetail arm
  client_namespace,   \* TemporalClient.namespace
  nsent,              \* history: commands enqueued so far (their ids are 1..nsent)
  emitted,            \* history: command ids of the results sent, in order
  applied,            \* history: the results applied, in order (command id and type)
  advances,           \* history: accepted Next-page presses since the last reset
  nkeys,              \* history: keystrokes dispatched so far
  requested,          \* history: the execution of the last ViewWorkflowDetail sent
  fetched,            \* history: the list calls completed (command id, namespace, page token)
  committed,          \* history: the search texts confirmed with Enter
  since_auto,         \* history: seconds known to have passed since the last automatic refresh
  drained             \* history: this run of process_results has applied a list Result

vars == << running, current_screen, wl, dt, nl, current_namespace,
           connection_status, mpc, cmdQ, resQ, wpc, wcmd, workflow_info,
           client_namespace, nsent, emitted, applied, advances, nkeys, requested,
                  fetched, committed, since_auto, drained >>

mainVars == << running, current_screen, wl, dt, nl, current_namespace,
               connection_status >>
workerVars == << wpc, wcmd, workflow_info, client_namespace >>

\* -------------------------------------------------------------- commands
NoCmd == [type |-> "NoCmd", id |-> 0]
RefreshWorkflows(q) == [type |-> "RefreshWorkflows", query |-> q, id |-> 0]
LoadNextPage(q, t) == [type |-> "LoadNextPage", query |-> q, page_token |-> t, id |-> 0]
LoadPreviousPage(q) == [type |-> "LoadPreviousPage", query |-> q, id |-> 0]
ViewWorkflowDetail(w, r) == [type |-> "ViewWorkflowDetail", workflow_id |-> w, run_id |-> r, id |-> 0]
RefreshNamespaces == [type |-> "RefreshNamespaces", id |-> 0]
SwitchNamespace(n) == [type |-> "SwitchNamespace", namespace |-> n, id |-> 0]
TerminateWorkflow(w, r, reason) == [type |-> "TerminateWorkflow", workflow_id |-> w, run_id |-> r, reason |-> reason, id |-> 0]
CancelWorkflow(w, r) == [type |-> "CancelWorkflow", workflow_id |-> w, run_id |-> r, id |-> 0]
SignalWorkflow(w, r, n) == [type |-> "SignalWorkflow", workflow_id |-> w, run_id |-> r, signal_name |-> n, id |-> 0]

ListCmdTypes == {"RefreshWorkflows", "LoadNextPage", "LoadPreviousPage"}
MutateCmdTypes == {"TerminateWorkflow", "CancelWorkflow", "SignalWorkflow"}

\* --------------------------------------------------------------- results
WorkflowsLoaded(ws, t, c) == [type |-> "WorkflowsLoaded", workflows |-> ws, next_page_token |-> t, cmd |-> c]
WorkflowsError(m, c) == [type |-> "WorkflowsError", error |-> m, cmd |-> c]
WorkflowDetailLoaded(w, h, c) == [type |-> "WorkflowDetailLoaded", workflow |-> w, history |-> h, cmd |-> c]
WorkflowDetailError(m, c) == [type |-> "WorkflowDetailError", error |-> m, cmd |-> c]
NamespacesLoaded(ns, c) == [type |-> "NamespacesLoaded", namespaces |-> ns, cmd |-> c]
NamespacesError(m, c) == [type |-> "NamespacesError", error |-> m, cmd |-> c]
NamespaceSwitched(n, c) == [type |-> "NamespaceSwitched", namespace |-> n, cmd |-> c]
WorkflowOperationSuccess(m, c) == [type |-> "WorkflowOperationSuccess", message |-> m, cmd |-> c]
WorkflowOperationError(m, c) == [type |-> "WorkflowOperationError", error |-> m, cmd |-> c]

ListResultTypes == {"WorkflowsLoaded", "WorkflowsError"}

\* ------------------------------------------------------ WorkflowListState
NewWorkflowListState ==
  [ items |-> << >>,
    selected |-> None,
    next_page_token |-> << >>,
    prev_page_tokens |-> << >>,
    loading |-> FALSE,
    error |-> None,
    current_page |-> 1,
    query |-> << >>,
    input_mode |-> FALSE,
    active_filter |-> None,
    auto_refresh_enabled |-> FALSE,
    last_refresh |-> None ]

\* last_refresh holds the whole seconds elapsed since the stamp, which the
\* code reads only through `elapsed >= interval`.
\* (variant for C16: a refresh in flight does not hold the timer back)
should_refreshWhileLoading(s) ==
  IF ~s.auto_refresh_enabled
    THEN FALSE
    ELSE IF s.last_refresh # None
           THEN s.last_refresh[1] >= auto_refresh_interval_secs
           ELSE TRUE

should_refresh(s) ==
  IF ~s.auto_refresh_enabled \/ s.loading
    THEN FALSE
    ELSE IF s.last_refresh # None
           THEN s.last_refresh[1] >= auto_refresh_interval_secs
           ELSE TRUE

mark_refreshed(s) == [s EXCEPT !.last_refresh = Some(0)]

FilterQuery(f) ==
  CASE f = "All" -> None
    [] f = "Running" -> Some("ExecutionStatus = 'Running'")
    [] f = "Completed" -> Some("ExecutionStatus = 'Completed'")
    [] f = "Failed" -> Some("ExecutionStatus = 'Failed'")
    [] f = "Canceled" -> Some("ExecutionStatus = 'Canceled'")

\* Vec<String>::join(sep) over strings kept as character sequences
RECURSIVE Join(_, _)
Join(parts, sep) ==
  IF parts = << >> THEN << >>
  ELSE IF Len(parts) = 1 THEN parts[1]
  ELSE parts[1] \o sep \o Join(Tail(parts), sep)

\* (variant for C15: the free-text query comes first)
get_queryReversed(s) ==
  LET filterPart == IF s.active_filter # None
                      THEN (IF FilterQuery(s.active_filter[1]) # None
                              THEN << FilterQuery(s.active_filter[1]) >>
                              ELSE << >>)
                      ELSE << >>
      queryPart == IF s.query # << >> THEN << s.query >> ELSE << >>
  IN Join(queryPart \o filterPart, << " AND " >>)

get_query(s) ==
  LET filterPart == IF s.active_filter # None
                      THEN (IF FilterQuery(s.active_filter[1]) # None
                              THEN << FilterQuery(s.active_filter[1]) >>
                              ELSE << >>)
                      ELSE << >>
      queryPart == IF s.query # << >> THEN << s.query >> ELSE << >>
  IN Join(filterPart \o queryPart, << " AND " >>)

has_next_page(s) == s.next_page_token # << >>
has_prev_page(s) == s.prev_page_tokens # << >>

\* (variant for C14: next stops at the last row)
select_nextClamped(n, sel) ==
  IF n = 0 THEN sel
  ELSE IF sel # None
         THEN (IF sel[1] >= n - 1 THEN Some(n - 1) ELSE Some(sel[1] + 1))
         ELSE Some(0)

\* select_next / select_previous of the three list states: n is the number
\* of rows, sel the TableState selection.
select_next(n, sel) ==
  IF n = 0 THEN sel
  ELSE IF sel # None
         THEN (IF sel[1] >= n - 1 THEN Some(0) ELSE Some(sel[1] + 1))
         ELSE Some(0)

select_previous(n, sel) ==
  IF n = 0 THEN sel
  ELSE IF sel # None
         THEN (IF sel[1] = 0 THEN Some(n - 1) ELSE Some(sel[1] - 1))
         ELSE Some(0)

\* selected_workflow / selected_event / selected_namespace:
\* table_state.selected().and_then(|i| items.get(i))
selected_item(items, sel) ==
  IF sel # None /\ sel[1] < Len(items) THEN Some(items[sel[1] + 1]) ELSE None

\* ---------------------------------------------------- WorkflowDetailState
NewWorkflowDetailState ==
  [ workflow |-> None,
    history |-> << >>,
    selected |-> None,
    loading |-> FALSE,
    error |-> None,
    show_dialog |-> None,
    dialog_input |-> << >>,
    success_message |-> None,
    show_event_detail |-> FALSE ]

\* ----------------------------------------------------- NamespaceListState
NewNamespaceListState ==
  [ items |-> << >>,
    selected |-> None,
    loading |-> FALSE,
    error |-> None ]


\* ------------------------------------------------------- process_results
\* Each operator is one arm of the match in App::process_results.  The main
\* loop's state is passed as a record a; a.out collects the commands the arm
\* sends on command_tx.

ApplyWorkflowsLoaded(s, r) ==
  LET s1 == mark_refreshed([s EXCEPT !.items = r.workflows,
                                     !.next_page_token = r.next_page_token,
                                     !.loading = FALSE,
                                     !.error = None])
  IN IF s1.items # << >> THEN [s1 EXCEPT !.selected = Some(0)] ELSE s1

\* (variant for C8: a failure blanks the list)
ApplyWorkflowsErrorBlank(s, r) ==
  [s EXCEPT !.error = Some(r.error), !.loading = FALSE, !.items = << >>]

ApplyWorkflowsError(s, r) ==
  [s EXCEPT !.error = Some(r.error), !.loading = FALSE]

ApplyWorkflowDetailLoaded(d, r) ==
  LET d1 == [d EXCEPT !.workflow = Some(r.workflow),
                      !.history = r.history,
                      !.loading = FALSE,
                      !.error = None]
  IN IF d1.history # << >> /\ d1.selected = None
       THEN [d1 EXCEPT !.selected = Some(0)]
       ELSE d1

ApplyWorkflowDetailError(d, r) ==
  [d EXCEPT !.error = Some(r.error), !.loading = FALSE]

ApplyNamespacesLoaded(n, r) ==
  LET n1 == [n EXCEPT !.items = r.namespaces, !.loading = FALSE, !.error = None]
  IN IF n1.items # << >> /\ n1.selected = None
       THEN [n1 EXCEPT !.selected = Some(0)]
       ELSE n1

ApplyNamespacesError(n, r) ==
  [n EXCEPT !.error = Some(r.error), !.loading = FALSE]

\* (variant for C37: the switch leaves the operator on the namespace screen)
ApplyNamespaceSwitchedStay(a, r) ==
  LET s1 == [a.wl EXCEPT !.loading = TRUE]
  IN [a EXCEPT !.current_namespace = r.namespace,
               !.wl = s1,
               !.out = Append(a.out, RefreshWorkflows(get_query(s1)))]

ApplyNamespaceSwitched(a, r) ==
  LET s1 == [a.wl EXCEPT !.loading = TRUE]
  IN [a EXCEPT !.current_namespace = r.namespace,
               !.wl = s1,
               !.out = Append(a.out, RefreshWorkflows(get_query(s1))),
               !.current_screen = "Workflows"]

\* (variant for C36: a success Result leaves an open dialog alone)
ApplyWorkflowOperationSuccessKeepDialog(d, r) ==
  [d EXCEPT !.success_message = Some(r.message)]

ApplyWorkflowOperationSuccess(d, r) ==
  [d EXCEPT !.success_message = Some(r.message),
            !.show_dialog = None,
            !.dialog_input = << >>]

ApplyWorkflowOperationError(d, r) ==
  [d EXCEPT !.error = Some(r.error),
            !.show_dialog = None,
            !.dialog_input = << >>]

ApplyResult(a, r) ==
  CASE r.type = "WorkflowsLoaded" -> [a EXCEPT !.wl = ApplyWorkflowsLoaded(a.wl, r)]
    [] r.type = "WorkflowsError" -> [a EXCEPT !.wl = ApplyWorkflowsError(a.wl, r)]
    [] r.type = "WorkflowDetailLoaded" -> [a EXCEPT !.dt = ApplyWorkflowDetailLoaded(a.dt, r)]
    [] r.type = "WorkflowDetailError" -> [a EXCEPT !.dt = ApplyWorkflowDetailError(a.dt, r)]
    [] r.type = "NamespacesLoaded" -> [a EXCEPT !.nl = ApplyNamespacesLoaded(a.nl, r)]
    [] r.type = "NamespacesError" -> [a EXCEPT !.nl = ApplyNamespacesError(a.nl, r)]
    [] r.type = "NamespaceSwitched" -> ApplyNamespaceSwitched(a, r)
    [] r.type = "WorkflowOperationSuccess" -> [a EXCEPT !.dt = ApplyWorkflowOperationSuccess(a.dt, r)]
    [] r.type = "WorkflowOperationError" -> [a EXCEPT !.dt = ApplyWorkflowOperationError(a.dt, r)]


\* ------------------------------------------------------------ handle_key
\* String::pop / Vec::pop: no-op on an empty sequence
Pop(t) == IF t = << >> THEN t ELSE SubSeq(t, 1, Len(t) - 1)

\* (variant for C13: the cycle leaves out All)
NextFilterSkipAll(f) ==
  CASE f = None -> Some("Running")
    [] f = Some("Running") -> Some("Completed")
    [] f = Some("Completed") -> Some("Failed")
    [] f = Some("Failed") -> Some("Canceled")
    [] f = Some("Canceled") -> None
    [] f = Some("All") -> None

NextFilter(f) ==
  CASE f = None -> Some("Running")
    [] f = Some("Running") -> Some("Completed")
    [] f = Some("Completed") -> Some("Failed")
    [] f = Some("Failed") -> Some("Canceled")
    [] f = Some("Canceled") -> Some("All")
    [] f = Some("All") -> None

\* (variant for C24: the refresh keeps the page position)
ResetAndRefreshKeepPage(a, s) ==
  LET s1 == [s EXCEPT !.loading = TRUE]
  IN [a EXCEPT !.wl = s1,
               !.out = Append(a.out, RefreshWorkflows(get_query(s1)))]

\* the page-reset-and-refresh tail shared by search Enter, 'f' and 'r'
ResetAndRefresh(a, s) ==
  LET s1 == [s EXCEPT !.loading = TRUE,
                      !.prev_page_tokens = << >>,
                      !.current_page = 1]
  IN [a EXCEPT !.wl = s1,
               !.out = Append(a.out, RefreshWorkflows(get_query(s1)))]

\* Screen::Workflows, input_mode = true
KeyWorkflowsInput(a, key) ==
  CASE key \in CharKeys ->
         [a EXCEPT !.wl.query = Append(a.wl.query, key)]
    [] key = "Backspace" ->
         [a EXCEPT !.wl.query = Pop(a.wl.query)]
    [] key = "Enter" ->
         ResetAndRefresh(a, [a.wl EXCEPT !.input_mode = FALSE])
    [] key = "Esc" ->
         [a EXCEPT !.wl.input_mode = FALSE]
    [] OTHER -> a

\* '2' on the Workflows and WorkflowDetail screens
GotoNamespaces(a) ==
  LET a1 == [a EXCEPT !.current_screen = "Namespaces"]
  IN IF a1.nl.items = << >> /\ ~a1.nl.loading
       THEN [a1 EXCEPT !.nl.loading = TRUE,
                       !.out = Append(a1.out, RefreshNamespaces)]
       ELSE a1

\* (variant for C7: the page counter runs ahead of the cursor)
NextPageNumberSkip(p) == p + 2

\* current_page += 1
NextPageNumber(p) == p + 1

\* (variant for C22: Next page does not wait for the page being loaded)
KeyNextPageWhileLoading(a) ==
  IF has_next_page(a.wl)
    THEN LET s1 == [a.wl EXCEPT !.loading = TRUE]
             s2 == IF s1.next_page_token # << >>
                     THEN [s1 EXCEPT !.prev_page_tokens = Append(s1.prev_page_tokens, << >>),
                                     !.current_page = NextPageNumber(s1.current_page)]
                     ELSE s1
         IN [a EXCEPT !.wl = s2,
                      !.out = Append(a.out, LoadNextPage(get_query(s2), s2.next_page_token))]
    ELSE a

KeyNextPage(a) ==
  IF has_next_page(a.wl) /\ ~a.wl.loading
    THEN LET s1 == [a.wl EXCEPT !.loading = TRUE]
             s2 == IF s1.next_page_token # << >>
                     THEN [s1 EXCEPT !.prev_page_tokens = Append(s1.prev_page_tokens, << >>),
                                     !.current_page = NextPageNumber(s1.current_page)]
                     ELSE s1
         IN [a EXCEPT !.wl = s2,
                      !.out = Append(a.out, LoadNextPage(get_query(s2), s2.next_page_token))]
    ELSE a

\* (variant for C28: going back leaves the page counter where it was)
PrevPageNumberKeep(p) == p

\* usize::saturating_sub(1).max(1)
PrevPageNumber(p) ==
  LET d == IF p >= 1 THEN p - 1 ELSE 0
  IN IF d >= 1 THEN d ELSE 1

\* (variant for C23: Previous page does not wait for the page being loaded)
KeyPreviousPageWhileLoading(a) ==
  IF has_prev_page(a.wl)
    THEN LET s1 == [a.wl EXCEPT !.loading = TRUE,
                                !.prev_page_tokens = Pop(a.wl.prev_page_tokens),
                                !.current_page = PrevPageNumber(a.wl.current_page)]
         IN [a EXCEPT !.wl = s1,
                      !.out = Append(a.out, LoadPreviousPage(get_query(s1)))]
    ELSE a

KeyPreviousPage(a) ==
  IF has_prev_page(a.wl) /\ ~a.wl.loading
    THEN LET s1 == [a.wl EXCEPT !.loading = TRUE,
                                !.prev_page_tokens = Pop(a.wl.prev_page_tokens),
                                !.current_page = PrevPageNumber(a.wl.current_page)]
         IN [a EXCEPT !.wl = s1,
                      !.out = Append(a.out, LoadPreviousPage(get_query(s1)))]
    ELSE a

KeyViewDetail(a) ==
  LET w == selected_item(a.wl.items, a.wl.selected)
  IN IF w # None /\ w[1].execution # None
       THEN [a EXCEPT !.dt.loading = TRUE,
                      !.out = Append(a.out, ViewWorkflowDetail(w[1].execution[1].workflow_id,
                                                               w[1].execution[1].run_id)),
                      !.current_screen = "WorkflowDetail"]
       ELSE a

\* Screen::Workflows, normal mode
KeyWorkflowsNormal(a, key) ==
  CASE key \in {"q", "Esc"} -> [a EXCEPT !.running = FALSE]
    [] key = "1" -> [a EXCEPT !.current_screen = "Workflows"]
    [] key = "2" -> GotoNamespaces(a)
    [] key = "?" -> [a EXCEPT !.current_screen = "Help"]
    [] key = "/" -> [a EXCEPT !.wl.input_mode = TRUE, !.wl.query = << >>]
    [] key = "f" ->
         ResetAndRefresh(a, [a.wl EXCEPT !.active_filter = NextFilter(a.wl.active_filter)])
    [] key = "c" ->
         [a EXCEPT !.wl = [a.wl EXCEPT !.active_filter = None,
                                       !.query = << >>,
                                       !.loading = TRUE,
                                       !.prev_page_tokens = << >>,
                                       !.current_page = 1],
                   !.out = Append(a.out, RefreshWorkflows(<< >>))]
    [] key = "a" ->
         [a EXCEPT !.wl.auto_refresh_enabled = ~a.wl.auto_refresh_enabled]
    [] key \in {"Down", "j"} ->
         [a EXCEPT !.wl.selected = select_next(Len(a.wl.items), a.wl.selected)]
    [] key \in {"Up", "k"} ->
         [a EXCEPT !.wl.selected = select_previous(Len(a.wl.items), a.wl.selected)]
    [] key = "r" -> ResetAndRefresh(a, a.wl)
    [] key \in {"n", "Right"} -> KeyNextPage(a)
    [] key \in {"p", "Left"} -> KeyPreviousPage(a)
    [] key = "Enter" -> KeyViewDetail(a)
    [] OTHER -> a

\* (variant for C18: Enter on the namespace list switches at once)
KeySwitchNamespaceEager(a) ==
  LET n == selected_item(a.nl.items, a.nl.selected)
  IN IF n # None /\ n[1].namespace_info # None
       THEN [a EXCEPT !.out = Append(a.out, SwitchNamespace(n[1].namespace_info[1].name)),
                      !.current_namespace = n[1].namespace_info[1].name]
       ELSE a

KeySwitchNamespace(a) ==
  LET n == selected_item(a.nl.items, a.nl.selected)
  IN IF n # None /\ n[1].namespace_info # None
       THEN [a EXCEPT !.out = Append(a.out, SwitchNamespace(n[1].namespace_info[1].name))]
       ELSE a

\* Screen::Namespaces
KeyNamespaces(a, key) ==
  CASE key \in {"q", "Esc"} -> [a EXCEPT !.current_screen = "Workflows"]
    [] key = "1" -> [a EXCEPT !.current_screen = "Workflows"]
    [] key = "2" -> [a EXCEPT !.current_screen = "Namespaces"]
    [] key \in {"Down", "j"} ->
         [a EXCEPT !.nl.selected = select_next(Len(a.nl.items), a.nl.selected)]
    [] key \in {"Up", "k"} ->
         [a EXCEPT !.nl.selected = select_previous(Len(a.nl.items), a.nl.selected)]
    [] key = "r" ->
         [a EXCEPT !.nl.loading = TRUE, !.out = Append(a.out, RefreshNamespaces)]
    [] key = "Enter" -> KeySwitchNamespace(a)
    [] OTHER -> a

\* Screen::WorkflowDetail, event-detail modal open (only the scroll offset,
\* which is not modelled, changes on the scrolling keys)
KeyDetailOverlay(a, key) ==
  IF key \in {"Esc", "q"}
    THEN [a EXCEPT !.dt.show_event_detail = FALSE]
    ELSE a

\* Screen::WorkflowDetail, success message shown: any key dismisses
KeyDetailBanner(a, key) ==
  [a EXCEPT !.dt.success_message = None]

CloseDialog(d) == [d EXCEPT !.show_dialog = None, !.dialog_input = << >>]

\* Enter in a dialog
KeyDialogEnter(a) ==
  LET d == a.dt
      operation == d.show_dialog[1]
      a1 ==
        IF d.workflow # None /\ d.workflow[1].execution # None
          THEN LET workflow_id == d.workflow[1].execution[1].workflow_id
                   run_id == d.workflow[1].execution[1].run_id
                   input == d.dialog_input
               IN CASE operation = "Terminate" ->
                         [a EXCEPT !.out = Append(a.out,
                            TerminateWorkflow(workflow_id, run_id,
                              IF input = << >> THEN << "Terminated by user" >> ELSE input))]
                    [] operation = "Cancel" ->
                         [a EXCEPT !.out = Append(a.out, CancelWorkflow(workflow_id, run_id))]
                    [] operation = "Signal" ->
                         IF input # << >>
                           THEN [a EXCEPT !.out = Append(a.out,
                                   SignalWorkflow(workflow_id, run_id, input))]
                           ELSE [a EXCEPT !.dt = CloseDialog(
                                   [d EXCEPT !.error = Some(<< "Signal name cannot be empty" >>)])]
          ELSE a
  IN [a1 EXCEPT !.dt = CloseDialog(a1.dt)]

\* (variant for C11: Esc in a dialog also leaves the detail screen)
KeyDetailDialogLeaky(a, key) ==
  CASE key \in CharKeys ->
         [a EXCEPT !.dt.dialog_input = Append(a.dt.dialog_input, key)]
    [] key = "Backspace" ->
         [a EXCEPT !.dt.dialog_input = Pop(a.dt.dialog_input)]
    [] key = "Enter" -> KeyDialogEnter(a)
    [] key = "Esc" -> [a EXCEPT !.dt = CloseDialog(a.dt), !.current_screen = "Workflows"]
    [] OTHER -> a

\* Screen::WorkflowDetail, dialog open
KeyDetailDialog(a, key) ==
  CASE key \in CharKeys ->
         [a EXCEPT !.dt.dialog_input = Append(a.dt.dialog_input, key)]
    [] key = "Backspace" ->
         [a EXCEPT !.dt.dialog_input = Pop(a.dt.dialog_input)]
    [] key = "Enter" -> KeyDialogEnter(a)
    [] key = "Esc" -> [a EXCEPT !.dt = CloseDialog(a.dt)]
    [] OTHER -> a

OpenDialog(d, operation) ==
  [d EXCEPT !.show_dialog = Some(operation),
            !.dialog_input = << >>,
            !.success_message = None,
            !.error = None]

\* Screen::WorkflowDetail, normal mode
KeyDetailNormal(a, key) ==
  CASE key \in {"q", "Esc"} -> [a EXCEPT !.current_screen = "Workflows"]
    [] key = "1" -> [a EXCEPT !.current_screen = "Workflows"]
    [] key = "2" -> GotoNamespaces(a)
    [] key = "t" -> [a EXCEPT !.dt = OpenDialog(a.dt, "Terminate")]
    [] key = "x" -> [a EXCEPT !.dt = OpenDialog(a.dt, "Cancel")]
    [] key = "s" -> [a EXCEPT !.dt = OpenDialog(a.dt, "Signal")]
    [] key \in {"Down", "j"} ->
         [a EXCEPT !.dt.selected = select_next(Len(a.dt.history), a.dt.selected)]
    [] key \in {"Up", "k"} ->
         [a EXCEPT !.dt.selected = select_previous(Len(a.dt.history), a.dt.selected)]
    [] key = "Enter" ->
         IF selected_item(a.dt.history, a.dt.selected) # None
           THEN [a EXCEPT !.dt.show_event_detail = TRUE]
           ELSE a
    [] OTHER -> a

\* Screen::Help (only the scroll offset, which is not modelled, changes on
\* the scrolling keys)
KeyHelp(a, key) ==
  IF key \in {"q", "Esc", "?"}
    THEN [a EXCEPT !.current_screen = "Workflows"]
    ELSE a

handle_key(a, key) ==
  CASE a.current_screen = "Workflows" ->
         IF a.wl.input_mode
           THEN KeyWorkflowsInput(a, key)
           ELSE KeyWorkflowsNormal(a, key)
    [] a.current_screen = "Namespaces" -> KeyNamespaces(a, key)
    [] a.current_screen = "WorkflowDetail" ->
         IF a.dt.show_event_detail THEN KeyDetailOverlay(a, key)
         ELSE IF a.dt.success_message # None THEN KeyDetailBanner(a, key)
         ELSE IF a.dt.show_dialog # None THEN KeyDetailDialog(a, key)
         ELSE KeyDetailNormal(a, key)
    [] a.current_screen = "Help" -> KeyHelp(a, key)


\* ---------------------------------------------------------------- channels
\* command_rx is alive while the worker task holds it: it is dropped at the
\* end of App::new when no client was connected, and when the task ends.
rx_open == wpc \notin {"none", "exited"}

\* result_rx lives in App, which App::run consumes and drops on return.
result_rx_open == mpc # "done"

StampIds(out, base) == [i \in 1..Len(out) |-> [out[i] EXCEPT !.id = base + i]]

CountType(q, t) == Cardinality({i \in 1..Len(q) : q[i].type = t})

\* Every SwitchNamespace under way makes process_results send one more
\* RefreshWorkflows; room for it is kept below MaxCmds.
PendingSwitches == CountType(cmdQ, "SwitchNamespace") + CountType(resQ, "NamespaceSwitched")

Room(out) ==
  \/ ~rx_open
  \/ out = << >>
  \/ nsent + PendingSwitches + Len(out) + CountType(out, "SwitchNamespace") <= MaxCmds

\* command_tx.send for each command of out, in order (`let _ =`: a send on a
\* closed channel is ignored)
Send(out) ==
  IF rx_open
    THEN /\ cmdQ' = cmdQ \o StampIds(out, nsent)
         /\ nsent' = nsent + Len(out)
    ELSE UNCHANGED << cmdQ, nsent >>

\* the execution named by the last ViewWorkflowDetail among the commands of
\* out, or the one requested before when there is none
LastRequested(out) ==
  LET v == { i \in 1..Len(out) : out[i].type = "ViewWorkflowDetail" }
  IN IF v = {}
       THEN requested
       ELSE LET c == out[CHOOSE i \in v : \A j \in v : j <= i]
            IN Some([workflow_id |-> c.workflow_id, run_id |-> c.run_id])

\* the search texts confirmed so far, after key is handled: Enter in the
\* search box confirms the text in it
Committed(key) ==
  IF current_screen = "Workflows" /\ wl.input_mode /\ key = "Enter"
    THEN committed \cup {wl.query}
    ELSE committed

\* the main loop's state as the record the handlers work on
AppState ==
  [ running |-> running,
    current_screen |-> current_screen,
    wl |-> wl,
    dt |-> dt,
    nl |-> nl,
    current_namespace |-> current_namespace,
    out |-> << >> ]

Store(a) ==
  /\ running' = a.running
  /\ current_screen' = a.current_screen
  /\ wl' = a.wl
  /\ dt' = a.dt
  /\ nl' = a.nl
  /\ current_namespace' = a.current_namespace
  /\ Send(a.out)

\* ------------------------------------------------------------------- Init
\* The state App::new returns: connect_temporal either connected (the worker
\* is spawned and holds command_rx) or failed / found no profile (no worker;
\* the one command sent is dropped together with command_rx).
InitialNamespace == "default"

Init ==
  /\ running = TRUE
  /\ current_screen = "Workflows"
  /\ wl = NewWorkflowListState
  /\ dt = NewWorkflowDetailState
  /\ nl = NewNamespaceListState
  /\ current_namespace = InitialNamespace
  /\ connection_status \in { << "Connected" >>,
                            << "Error", "Connection failed" >>,
                            << "Error", "No active profile configured" >> }
  /\ mpc = "process_results"
  /\ resQ = << >>
  /\ wcmd = NoCmd
  /\ workflow_info = None
  /\ client_namespace = InitialNamespace
  /\ nsent = 1
  /\ emitted = << >>
  /\ applied = << >>
  /\ advances = 0
  /\ nkeys = 0
  /\ requested = None
  /\ fetched = << >>
  /\ committed = {}
  /\ since_auto = None
  /\ drained = FALSE
  /\ IF connection_status = << "Connected" >>
       THEN wpc = "recv" /\ cmdQ = StampIds(<< RefreshWorkflows(<< >>) >>, 0)
       ELSE wpc = "none" /\ cmdQ = << >>

\* -------------------------------------------------------------- App::run
\* process_results: one turn of `while let Ok(result) = try_recv()`
ApplyNextResult ==
  /\ mpc = "process_results"
  /\ resQ # << >>
  /\ resQ' = Tail(resQ)
  /\ Store(ApplyResult(AppState, Head(resQ)))
  /\ applied' = Append(applied, [cmd |-> Head(resQ).cmd, type |-> Head(resQ).type])
  /\ drained' = (drained \/ Head(resQ).type \in ListResultTypes)
  /\ UNCHANGED << connection_status, mpc, workerVars, emitted, advances, nkeys, requested,
                  fetched, committed, since_auto >>

\* (variant for C25: the automatic refresh goes back to page 1)
AutoRefreshStepReset(a) ==
  IF a.current_screen = "Workflows" /\ should_refresh(a.wl)
    THEN ResetAndRefresh(a, a.wl)
    ELSE a

AutoRefreshStep(a) ==
  IF a.current_screen = "Workflows" /\ should_refresh(a.wl)
    THEN LET s1 == [a.wl EXCEPT !.loading = TRUE]
         IN [a EXCEPT !.wl = s1,
                      !.out = Append(a.out, RefreshWorkflows(get_query(s1)))]
    ELSE a

\* (variant for C27: process_results returns after the first Result)
AutoRefreshEarly ==
  /\ mpc = "process_results"
  /\ LET a == AutoRefreshStep(AppState)
     IN /\ Room(a.out)
        /\ Store(a)
        /\ since_auto' = IF a.out # << >> THEN Some(0) ELSE since_auto
  /\ mpc' = "poll"
  /\ drained' = FALSE
  /\ UNCHANGED << connection_status, resQ, workerVars, emitted, applied, advances, nkeys,
                  requested, fetched, committed >>

\* process_results finds the channel empty (try_recv fails) and returns;
\* the auto-refresh check follows, then terminal.draw (which changes nothing)
AutoRefresh ==
  /\ mpc = "process_results"
  /\ resQ = << >>
  /\ LET a == AutoRefreshStep(AppState)
     IN /\ Room(a.out)
        /\ Store(a)
        /\ since_auto' = IF a.out # << >> THEN Some(0) ELSE since_auto
  /\ mpc' = "poll"
  /\ drained' = FALSE
  /\ UNCHANGED << connection_status, resQ, workerVars, emitted, applied, advances, nkeys,
                  requested, fetched, committed >>

\* event_handler.next() returns Event::Tick
PollTick ==
  /\ mpc = "poll"
  /\ mpc' = "process_results"
  /\ UNCHANGED << mainVars, cmdQ, resQ, workerVars, nsent, emitted, applied, advances, nkeys, requested,
                  fetched, committed, since_auto, drained >>

\* terminal.draw or event_handler.next() fails: `?` returns the error from
\* App::run, with running still true
TerminalError ==
  /\ mpc = "poll"
  /\ mpc' = "done"
  /\ UNCHANGED << mainVars, cmdQ, resQ, workerVars, nsent, emitted, applied, advances, nkeys, requested,
                  fetched, committed, since_auto, drained >>

Typing ==
  \/ current_screen = "Workflows" /\ wl.input_mode
  \/ /\ current_screen = "WorkflowDetail"
     /\ ~dt.show_event_detail
     /\ dt.success_message = None
     /\ dt.show_dialog # None

\* event_handler.next() returns Event::Key, and handle_key runs
KeyPress ==
  /\ mpc = "poll"
  /\ nkeys < MaxKeys
  /\ nkeys' = nkeys + 1
  /\ \E key \in (IF Typing THEN TypingKeys ELSE Keys) :
       LET a == handle_key(AppState, key)
       IN /\ Len(a.wl.query) <= MaxText
          /\ Len(a.dt.dialog_input) <= MaxText
          /\ Room(a.out)
          /\ Store(a)
          /\ mpc' = IF a.running THEN "process_results" ELSE "done"
          /\ advances' = IF CountType(a.out, "LoadNextPage") > 0 THEN advances + 1
                         ELSE IF CountType(a.out, "RefreshWorkflows") > 0 THEN 0
                         ELSE advances
          /\ requested' = LastRequested(a.out)
          /\ committed' = Committed(key)
  /\ UNCHANGED << connection_status, resQ, workerVars, emitted, applied, fetched, since_auto, drained >>

\* time passes on the clock behind Instant::elapsed: the interval's worth of
\* seconds at once (shorter waits leave should_refresh as it was).  The clock
\* is read by should_refresh only, and only while auto-refresh is enabled, so
\* it is advanced only then.
ClockTick ==
  /\ wl.auto_refresh_enabled
  /\ wl.last_refresh # None
  /\ wl.last_refresh[1] < auto_refresh_interval_secs
  /\ wl' = [wl EXCEPT !.last_refresh = Some(auto_refresh_interval_secs)]
  /\ since_auto' = IF since_auto # None THEN Some(auto_refresh_interval_secs) ELSE None
  /\ UNCHANGED << running, current_screen, dt, nl, current_namespace,
                  connection_status, mpc, cmdQ, resQ, workerVars, nsent,
                  emitted, applied, advances, nkeys, requested, fetched, committed, drained >>

\* ------------------------------------------------------------ the worker
\* (variant for C3: the result channel hands out the newest result first)
SendResultFront(r) ==
  IF result_rx_open
    THEN resQ' = << r >> \o resQ /\ emitted' = Append(emitted, r.cmd)
    ELSE UNCHANGED << resQ, emitted >>

\* result_tx.send (`let _ =`: ignored once result_rx is gone)
SendResult(r) ==
  IF result_rx_open
    THEN resQ' = Append(resQ, r) /\ emitted' = Append(emitted, r.cmd)
    ELSE UNCHANGED << resQ, emitted >>

CallState(t) ==
  CASE t \in ListCmdTypes -> "list"
    [] t = "ViewWorkflowDetail" -> "lookup"
    [] t = "RefreshNamespaces" -> "namespaces"
    [] t \in MutateCmdTypes -> "mutate"

\* command_rx.recv() yields a command whose arm starts with a remote call
WorkerRecv ==
  /\ wpc = "recv"
  /\ cmdQ # << >>
  /\ Head(cmdQ).type # "SwitchNamespace"
  /\ cmdQ' = Tail(cmdQ)
  /\ wcmd' = Head(cmdQ)
  /\ wpc' = CallState(Head(cmdQ).type)
  /\ UNCHANGED << mainVars, mpc, resQ, workflow_info, client_namespace,
                  nsent, emitted, applied, advances, nkeys, requested,
                  fetched, committed, since_auto, drained >>

\* (variant for C31: the worker reports the switch but keeps its namespace)
WorkerSwitchNamespaceLazy ==
  /\ wpc = "recv"
  /\ cmdQ # << >>
  /\ Head(cmdQ).type = "SwitchNamespace"
  /\ cmdQ' = Tail(cmdQ)
  /\ SendResult(NamespaceSwitched(Head(cmdQ).namespace, Head(cmdQ).id))
  /\ UNCHANGED << mainVars, mpc, wpc, wcmd, workflow_info, client_namespace, nsent, applied,
                  advances, nkeys, requested, fetched, committed, since_auto, drained >>

\* the SwitchNamespace arm: no remote call
WorkerSwitchNamespace ==
  /\ wpc = "recv"
  /\ cmdQ # << >>
  /\ Head(cmdQ).type = "SwitchNamespace"
  /\ cmdQ' = Tail(cmdQ)
  /\ client_namespace' = Head(cmdQ).namespace
  /\ SendResult(NamespaceSwitched(Head(cmdQ).namespace, Head(cmdQ).id))
  /\ UNCHANGED << mainVars, mpc, wpc, wcmd, workflow_info, nsent, applied, advances, nkeys, requested,
                  fetched, committed, since_auto, drained >>

ListErrorPrefix(t) ==
  CASE t = "RefreshWorkflows" -> "Failed to load workflows: "
    [] t = "LoadNextPage" -> "Failed to load next page: "
    [] t = "LoadPreviousPage" -> "Failed to load previous page: "

\* the arguments of client.list_workflow_executions in the three list arms
ListRequest(c) ==
  [ query |-> c.query,
    page_token |-> IF c.type = "LoadNextPage" THEN c.page_token ELSE << >> ]

\* list_workflow_executions completes for RefreshWorkflows, LoadNextPage or
\* LoadPreviousPage
WorkerListDone ==
  /\ wpc = "list"
  /\ \/ \E n \in 0..MaxItems, more \in BOOLEAN :
          SendResult(WorkflowsLoaded(Page(n),
                       IF more THEN Token(ListRequest(wcmd).query, client_namespace) ELSE << >>,
                       wcmd.id))
     \/ \E e \in Causes :
          SendResult(WorkflowsError(<< ListErrorPrefix(wcmd.type), e >>, wcmd.id))
  /\ fetched' = Append(fetched, [cmd |-> wcmd.id, namespace |-> client_namespace,
                                 page_token |-> ListRequest(wcmd).page_token])
  /\ wpc' = "recv"
  /\ wcmd' = NoCmd
  /\ UNCHANGED << mainVars, mpc, cmdQ, workflow_info, client_namespace,
                  nsent, applied, advances, nkeys, requested, committed, since_auto, drained >>

\* ViewWorkflowDetail: the metadata lookup completes; .ok().and_then(..next())
WorkerLookupDone ==
  /\ wpc = "lookup"
  /\ workflow_info' \in { Some(Workflow(wcmd.workflow_id)), None }
  /\ wpc' = "history"
  /\ UNCHANGED << mainVars, mpc, cmdQ, resQ, wcmd, client_namespace,
                  nsent, emitted, applied, advances, nkeys, requested,
                  fetched, committed, since_auto, drained >>

unwrap_or_default(w) == IF w # None THEN w[1] ELSE DefaultWorkflow

\* ViewWorkflowDetail: get_workflow_execution_history completes with
\* Ok(history: Some), Ok(history: None) or Err
WorkerHistoryDone ==
  /\ wpc = "history"
  /\ \/ \E n \in 0..MaxEvents :
          SendResult(WorkflowDetailLoaded(unwrap_or_default(workflow_info), Events(n), wcmd.id))
     \/ UNCHANGED << resQ, emitted >>
     \/ \E e \in Causes :
          SendResult(WorkflowDetailError(<< "Failed to load workflow detail: ", e >>, wcmd.id))
  /\ wpc' = "recv"
  /\ wcmd' = NoCmd
  /\ workflow_info' = None
  /\ UNCHANGED << mainVars, mpc, cmdQ, client_namespace, nsent, applied, advances, nkeys, requested,
                  fetched, committed, since_auto, drained >>

\* list_namespaces completes
WorkerNamespacesDone ==
  /\ wpc = "namespaces"
  /\ \/ \E n \in 0..MaxNamespaces : SendResult(NamespacesLoaded(NamespacePage(n), wcmd.id))
     \/ \E e \in Causes :
          SendResult(NamespacesError(<< "Failed to load namespaces: ", e >>, wcmd.id))
  /\ wpc' = "recv"
  /\ wcmd' = NoCmd
  /\ UNCHANGED << mainVars, mpc, cmdQ, workflow_info, client_namespace,
                  nsent, applied, advances, nkeys, requested,
                  fetched, committed, since_auto, drained >>

MutateSuccess(c) ==
  CASE c.type = "TerminateWorkflow" -> << "Workflow ", c.workflow_id, " terminated successfully" >>
    [] c.type = "CancelWorkflow" -> << "Workflow ", c.workflow_id, " cancel requested successfully" >>
    [] c.type = "SignalWorkflow" ->
         << "Signal '", c.signal_name, "' sent to workflow ", c.workflow_id, " successfully" >>

MutateErrorPrefix(t) ==
  CASE t = "TerminateWorkflow" -> "Failed to terminate workflow: "
    [] t = "CancelWorkflow" -> "Failed to cancel workflow: "
    [] t = "SignalWorkflow" -> "Failed to signal workflow: "

\* terminate_workflow / cancel_workflow / signal_workflow completes
WorkerMutateDone ==
  /\ wpc = "mutate"
  /\ \/ SendResult(WorkflowOperationSuccess(MutateSuccess(wcmd), wcmd.id))
     \/ \E e \in Causes :
          SendResult(WorkflowOperationError(<< MutateErrorPrefix(wcmd.type), e >>, wcmd.id))
  /\ wpc' = "recv"
  /\ wcmd' = NoCmd
  /\ UNCHANGED << mainVars, mpc, cmdQ, workflow_info, client_namespace,
                  nsent, applied, advances, nkeys, requested,
                  fetched, committed, since_auto, drained >>

\* (variant for C20: the loop ends as soon as the queue is empty)
WorkerExitEarly ==
  /\ wpc = "recv"
  /\ cmdQ = << >>
  /\ wpc' = "exited"
  /\ UNCHANGED << mainVars, mpc, cmdQ, resQ, wcmd, workflow_info,
                  client_namespace, nsent, emitted, applied, advances, nkeys, requested,
                  fetched, committed, since_auto, drained >>

\* command_rx.recv() yields None: every sender is gone and the queue is empty
WorkerExit ==
  /\ wpc = "recv"
  /\ cmdQ = << >>
  /\ mpc = "done"
  /\ wpc' = "exited"
  /\ UNCHANGED << mainVars, mpc, cmdQ, resQ, wcmd, workflow_info,
                  client_namespace, nsent, emitted, applied, advances, nkeys, requested,
                  fetched, committed, since_auto, drained >>

Next ==
  \/ ApplyNextResult
  \/ AutoRefresh
  \/ PollTick
  \/ KeyPress
  \/ TerminalError
  \/ ClockTick
  \/ WorkerRecv
  \/ WorkerSwitchNamespace
  \/ WorkerListDone
  \/ WorkerLookupDone
  \/ WorkerHistoryDone
  \/ WorkerNamespacesDone
  \/ WorkerMutateDone
  \/ WorkerExit

Spec == Init /\ [][Next]_vars

\* The worker is a spawned tokio task: the runtime keeps polling it, and
\* "remote calls complete" is the assumption that each call returns.
WorkerStep ==
  \/ WorkerRecv
  \/ WorkerSwitchNamespace
  \/ WorkerListDone
  \/ WorkerLookupDone
  \/ WorkerHistoryDone
  \/ WorkerNamespacesDone
  \/ WorkerMutateDone
  \/ WorkerExit

FairSpec == Spec /\ WF_vars(WorkerStep)

\* --------------------------------------------------- filter-cycle runs
\* event_handler.next() returns Event::Key('f') on the workflow list
PressFilter ==
  /\ mpc = "poll"
  /\ current_screen = "Workflows" /\ ~wl.input_mode
  /\ nkeys < MaxPresses
  /\ Len(cmdQ) + Len(resQ) < MaxQueued
  /\ nkeys' = nkeys + 1
  /\ Store(handle_key(AppState, "f"))
  /\ mpc' = "process_results"
  /\ advances' = 0
  /\ UNCHANGED << connection_status, resQ, workerVars, emitted, applied, requested,
                  fetched, committed, since_auto, drained >>

\* The runs in which the operator presses nothing but 'f'.
NextFilterRun ==
  \/ ApplyNextResult
  \/ AutoRefresh
  \/ PollTick
  \/ PressFilter
  \/ WorkerRecv
  \/ WorkerListDone

SpecFilter == Init /\ [][NextFilterRun]_vars

\* ------------------------------------------------------- browsing runs
\* Runs that start in the middle of a session: the operator is on one of
\* the three list screens, the list of that screen holds up to MaxRows rows,
\* and the worker is idle or, when the workflow list is loading, inside the
\* remote call of the refresh that set the flag.  The history variables
\* count from the start of such a run.

\* the free-text queries the operator may have searched for
Queries == { << >>, << "a" >>, << "WorkflowType='Foo'" >> }

WorkflowFilters == {"All", "Running", "Completed", "Failed", "Canceled"}

\* the values table_state.selected() can have on a list of n rows: an index
\* of the list, or on an empty list whatever was left behind
Selections(n) ==
  IF n = 0 THEN {None} \cup {Some(i) : i \in 0..(MaxRows - 1)}
           ELSE {Some(i) : i \in 0..(n - 1)}

\* a workflow list that has loaded one page
LoadedWorkflowList ==
  ApplyWorkflowsLoaded(NewWorkflowListState, WorkflowsLoaded(Page(1), << >>, 0))

InitBrowse ==
  /\ running = TRUE
  /\ current_screen \in {"Workflows", "Namespaces", "WorkflowDetail"}
  /\ current_namespace = InitialNamespace
  /\ connection_status = << "Connected" >>
  /\ mpc = "process_results"
  /\ cmdQ = << >>
  /\ resQ = << >>
  /\ workflow_info = None
  /\ client_namespace = InitialNamespace
  /\ emitted = << >>
  /\ applied = << >>
  /\ advances = 0
  /\ nkeys = 0
  /\ requested = None
  /\ fetched = << >>
  /\ committed = {}
  /\ since_auto = None
  /\ drained = FALSE
  /\ \E n \in 0..MaxRows : \E sel \in Selections(n) :
       CASE current_screen = "Workflows" ->
              /\ \E f \in {None} \cup {Some(w) : w \in WorkflowFilters}, q \in Queries,
                    enabled \in BOOLEAN, loading \in BOOLEAN,
                    last \in {None} \cup {Some(t) : t \in 0..MaxSecs} :
                   /\ last = None => (n = 0 /\ sel = None)
                   /\ wl = [NewWorkflowListState EXCEPT
                               !.items = Page(n), !.selected = sel,
                               !.active_filter = f, !.query = q,
                               !.auto_refresh_enabled = enabled,
                               !.loading = loading, !.last_refresh = last]
              /\ nl = NewNamespaceListState
              /\ dt = NewWorkflowDetailState
         [] current_screen = "Namespaces" ->
              /\ wl = LoadedWorkflowList
              /\ nl = [NewNamespaceListState EXCEPT
                          !.items = NamespacePage(n), !.selected = sel]
              /\ dt = NewWorkflowDetailState
         [] current_screen = "WorkflowDetail" ->
              /\ wl = LoadedWorkflowList
              /\ nl = NewNamespaceListState
              /\ dt = [NewWorkflowDetailState EXCEPT
                          !.workflow = Some(Workflow(1)),
                          !.history = Events(n), !.selected = sel]
  /\ IF wl.loading
       THEN /\ wpc = "list"
            /\ wcmd = [RefreshWorkflows(get_query(wl)) EXCEPT !.id = 1]
            /\ nsent = 1
       ELSE /\ wpc = "recv"
            /\ wcmd = NoCmd
            /\ nsent = 0

\* event_handler.next() returns Event::Key(key), and handle_key runs
DispatchKey(key) ==
  /\ mpc = "poll"
  /\ nkeys < MaxMoves
  /\ nkeys' = nkeys + 1
  /\ LET a == handle_key(AppState, key)
     IN /\ Store(a)
        /\ mpc' = IF a.running THEN "process_results" ELSE "done"
        /\ advances' = IF CountType(a.out, "RefreshWorkflows") > 0 THEN 0 ELSE advances
        /\ requested' = LastRequested(a.out)
        /\ committed' = Committed(key)
  /\ UNCHANGED << connection_status, resQ, workerVars, emitted, applied, fetched, since_auto, drained >>

SelectNextKey == \E key \in {"Down", "j"} : DispatchKey(key)

SelectPreviousKey == \E key \in {"Up", "k"} : DispatchKey(key)

RefreshKey == DispatchKey("r")

NextBrowse ==
  \/ AutoRefresh
  \/ PollTick
  \/ SelectNextKey
  \/ SelectPreviousKey
  \/ RefreshKey

SpecBrowse == InitBrowse /\ [][NextBrowse]_vars

\* ------------------------------------------------------- inspecting runs
\* Runs that start in the middle of a session, on the workflow list with one
\* page of up to MaxRows workflows loaded and any row selected; the detail
\* screen has either never been opened, or it was opened on one of the
\* listed workflows, loaded, and left again with Esc (which changes
\* current_screen only).  The worker is idle and the history variables
\* count from the start of such a run, except requested.

\* a detail view that has loaded workflow w and n events of its history
LoadedWorkflowDetail(w, n) ==
  ApplyWorkflowDetailLoaded(NewWorkflowDetailState,
                            WorkflowDetailLoaded(Workflow(w), Events(n), 0))

InitDetail ==
  /\ running = TRUE
  /\ current_screen = "Workflows"
  /\ \E n \in 1..MaxRows, sel \in 0..(MaxRows - 1) :
       /\ sel < n
       /\ wl = [ApplyWorkflowsLoaded(NewWorkflowListState,
                                     WorkflowsLoaded(Page(n), << >>, 0))
                  EXCEPT !.selected = Some(sel)]
  /\ nl = NewNamespaceListState
  /\ \/ dt = NewWorkflowDetailState /\ requested = None
     \/ \E w \in 1..Len(wl.items), n \in 0..MaxEvents :
          /\ dt = LoadedWorkflowDetail(w, n)
          /\ requested = Some(Execution(w))
  /\ current_namespace = InitialNamespace
  /\ connection_status = << "Connected" >>
  /\ mpc = "process_results"
  /\ cmdQ = << >>
  /\ resQ = << >>
  /\ wpc = "recv"
  /\ wcmd = NoCmd
  /\ workflow_info = None
  /\ client_namespace = InitialNamespace
  /\ nsent = 0
  /\ emitted = << >>
  /\ applied = << >>
  /\ advances = 0
  /\ nkeys = 0
  /\ fetched = << >>
  /\ committed = {}
  /\ since_auto = None
  /\ drained = FALSE

\* the keys that open a detail, leave it, and open the three dialogs
DetailKeys == {"Enter", "Esc", "t", "x", "s"}

\* event_handler.next() returns Event::Key, and handle_key runs
PressDetailKey ==
  /\ mpc = "poll"
  /\ nkeys < MaxDetailKeys
  /\ nkeys' = nkeys + 1
  /\ \E key \in (IF Typing THEN TypingKeys ELSE DetailKeys) :
       LET a == handle_key(AppState, key)
       IN /\ Len(a.dt.dialog_input) <= MaxText
          /\ Room(a.out)
          /\ Store(a)
          /\ mpc' = IF a.running THEN "process_results" ELSE "done"
          /\ requested' = LastRequested(a.out)
          /\ committed' = Committed(key)
  /\ UNCHANGED << connection_status, resQ, workerVars, emitted, applied, advances,
                  fetched, since_auto, drained >>

NextDetail ==
  \/ ApplyNextResult
  \/ AutoRefresh
  \/ PollTick
  \/ PressDetailKey
  \/ WorkerRecv
  \/ WorkerLookupDone
  \/ WorkerHistoryDone
  \/ WorkerMutateDone

SpecDetail == InitDetail /\ [][NextDetail]_vars


\* ------------------------------------------------------------------ claims
Count(q, x) == Cardinality({i \in 1..Len(q) : q[i] = x})

\* commands the worker has taken from the command channel
Consumed == nsent - Len(cmdQ)
\* commands whose arm the worker has run to its end
Finished == IF wcmd = NoCmd THEN Consumed ELSE Consumed - 1
\* both ends of both channels are alive
ChannelsOpen == rx_open /\ result_rx_open

\* C1: every command yields exactly one result.  Stated at the points where
\* the worker has finished a command's arm: each finished command has
\* exactly one result on the result channel's history (never zero, never
\* more than one).
C1_ExactlyOneResult ==
  ChannelsOpen => \A k \in 1..Finished : Count(emitted, k) = 1

\* C2: commands are consumed in enqueue order, the result of command k is
\* emitted before the remote call of command k+1 starts, and results appear
\* in the order of their commands.
C2_StrictSequencing ==
  ChannelsOpen =>
    /\ \A i \in 1..Len(cmdQ) : cmdQ[i].id = Consumed + i
    /\ wcmd # NoCmd => wcmd.id = Consumed
    /\ wcmd # NoCmd => \A k \in 1..(wcmd.id - 1) : Count(emitted, k) >= 1
    /\ \A i, j \in 1..Len(emitted) : i < j => emitted[i] < emitted[j]

\* C3: Results of list commands are applied to the workflow list in the
\* order the commands were enqueued: a Result of an earlier command is never
\* applied after the Result of a later one.
C3_AppliedInEnqueueOrder ==
  \A i, j \in 1..Len(applied) :
    (i < j /\ applied[i].type \in ListResultTypes /\ applied[j].type \in ListResultTypes)
      => applied[i].cmd < applied[j].cmd

\* The initial refresh (empty query) and the refresh sent by one 'f' press
\* (query ExecutionStatus = 'Running') have both been applied, in that
\* order, and the list shows the later query's items.
C3_Witness ==
  /\ nsent = 2
  /\ wl.active_filter = Some("Running")
  /\ wl.query = << >>
  /\ wl.items # << >>
  /\ Len(applied) = 2
  /\ applied[1].cmd = 1 /\ applied[1].type = "WorkflowsLoaded"
  /\ applied[2].cmd = 2 /\ applied[2].type = "WorkflowsLoaded"

\* the loading flag of the view whose command the worker is executing
AffectedViewLoading ==
  CASE wpc = "list" -> wl.loading
    [] wpc \in {"lookup", "history"} -> dt.loading
    [] wpc = "namespaces" -> nl.loading
    [] OTHER -> TRUE

\* C4: while the worker is suspended inside a remote call (and nothing else
\* is under way on either channel) the main loop can still take its next
\* step, and the view the call belongs to shows loading = true.
C4_HungCallStallsOnlyWorker ==
  (result_rx_open /\ wpc \in {"list", "lookup", "history", "namespaces"}
     /\ cmdQ = << >> /\ resQ = << >>)
    => /\ ENABLED (AutoRefresh \/ PollTick)
       /\ AffectedViewLoading

SelectionValid(items, sel) ==
  IF items = << >> THEN sel = None ELSE sel # None /\ sel[1] < Len(items)

\* C5: for the workflow list and the namespace list the selection is None
\* when items is empty and otherwise an index below the number of items.
C5_SelectionValid ==
  /\ SelectionValid(wl.items, wl.selected)
  /\ SelectionValid(nl.items, nl.selected)

\* list commands enqueued whose Result the main loop has not applied yet
OutstandingListCommands ==
  CountType(cmdQ, "RefreshWorkflows") + CountType(cmdQ, "LoadNextPage")
    + CountType(cmdQ, "LoadPreviousPage")
    + (IF wcmd.type \in ListCmdTypes THEN 1 ELSE 0)
    + CountType(resQ, "WorkflowsLoaded") + CountType(resQ, "WorkflowsError")

\* C6: at most one list-loading command is outstanding at any time.
C6_SingleOutstandingListCommand ==
  ChannelsOpen => OutstandingListCommands <= 1

\* C7: current_page is at least 1 and current_page - 1 never exceeds the
\* number of accepted Next-page presses since the last reset.
C7_PageWithinAdvances ==
  /\ wl.current_page >= 1
  /\ wl.current_page - 1 <= advances

\* A Next-page press was accepted and a Previous-page press after it brought
\* the list back to page 1.
C7_Witness ==
  /\ advances >= 1
  /\ wl.current_page = 1
  /\ wl.prev_page_tokens = << >>

\* the step in which process_results applies a Result of one of the types ts
Applies(ts) ==
  /\ mpc = "process_results"
  /\ resQ # << >>
  /\ Head(resQ).type \in ts
  /\ applied' # applied

\* C8: applying WorkflowsError sets error and clears loading, leaves items,
\* next_page_token, prev_page_tokens, current_page and the selection (and all
\* the rest of the list state) unchanged, and applying the same Result once
\* more changes nothing further.
C8_FailureLeavesData ==
  [][ Applies({"WorkflowsError"}) =>
        /\ wl'.error = Some(Head(resQ).error)
        /\ wl'.loading = FALSE
        /\ wl'.items = wl.items
        /\ wl'.next_page_token = wl.next_page_token
        /\ wl'.prev_page_tokens = wl.prev_page_tokens
        /\ wl'.current_page = wl.current_page
        /\ wl'.selected = wl.selected
        /\ wl' = [wl EXCEPT !.error = wl'.error, !.loading = FALSE]
        /\ ApplyWorkflowsError(wl', Head(resQ)).items = wl'.items
        /\ ApplyWorkflowsError(wl', Head(resQ)) = wl'
    ]_vars

\* A list failure has just been applied to a list that holds items and a
\* continuation token: both are still there.
C8_Witness ==
  /\ applied # << >>
  /\ applied[Len(applied)].type = "WorkflowsError"
  /\ wl.error # None
  /\ ~wl.loading
  /\ wl.items # << >>
  /\ wl.next_page_token # << >>

\* C9: Enter in a Signal dialog with an empty input buffer enqueues no
\* SignalWorkflow and sets the validation error, in every state in which the
\* Signal dialog is open.
C9_EmptySignalRejected ==
  (/\ current_screen = "WorkflowDetail"
   /\ ~dt.show_event_detail
   /\ dt.success_message = None
   /\ dt.show_dialog = Some("Signal")
   /\ dt.dialog_input = << >>)
    => LET a == handle_key(AppState, "Enter")
       IN /\ CountType(a.out, "SignalWorkflow") = 0
          /\ a.dt.error = Some(<< "Signal name cannot be empty" >>)

\* C10: once a mutate Result (success or failure) has been applied on the
\* detail screen it is shown, and the next keystroke, whichever it is,
\* dismisses it and does nothing else.
C10_BannerSwallowsOneKey ==
  [][ (Applies({"WorkflowOperationSuccess", "WorkflowOperationError"})
         /\ current_screen' = "WorkflowDetail") =>
        /\ dt'.success_message # None \/ dt'.error # None
        /\ \A key \in Keys :
             handle_key(AppState', key)
               = [AppState' EXCEPT !.dt.success_message = None, !.dt.error = None]
    ]_vars

\* an operation dialog or the event-detail modal is open on the detail screen
OverlayActive ==
  /\ current_screen = "WorkflowDetail"
  /\ dt.show_event_detail \/ dt.show_dialog # None

\* C11: while an overlay is open on the detail screen, whichever key is
\* pressed, the screen stays the detail screen, the event selection does not
\* move, no other dialog or overlay opens (the open one stays or closes), no
\* command other than the dialog's own operation is enqueued, and the two
\* other views are untouched.
C11_OverlayIntercepts ==
  OverlayActive =>
    \A key \in Keys :
      LET a == handle_key(AppState, key)
      IN /\ a.running = running
         /\ a.current_screen = current_screen
         /\ a.dt.selected = dt.selected
         /\ a.dt.show_dialog \in {dt.show_dialog, None}
         /\ a.dt.show_event_detail => dt.show_event_detail
         /\ \A i \in 1..Len(a.out) : a.out[i].type \in MutateCmdTypes
         /\ dt.show_event_detail => a.out = << >>
         /\ a.wl = wl
         /\ a.nl = nl
         /\ a.current_namespace = current_namespace

\* A dialog is open on the detail screen and has taken a typed character.
C11_Witness ==
  /\ OverlayActive
  /\ dt.show_dialog # None
  /\ dt.dialog_input # << >>

\* C12: the metadata lookup of ViewWorkflowDetail never emits a Result by
\* itself and always hands over to the history fetch; when the lookup gave
\* no record and the history fetch did not fail, the command's one Result is
\* WorkflowDetailLoaded with the default metadata record (a failed fetch
\* gives WorkflowDetailError).
C12_LookupFailureTolerated ==
  [][ /\ (wpc = "lookup" /\ wpc' # "lookup")
            => (wpc' = "history" /\ UNCHANGED << resQ, emitted >>)
      /\ (wpc = "history" /\ wpc' = "recv" /\ workflow_info = None /\ result_rx_open)
            => /\ emitted' = Append(emitted, wcmd.id)
               /\ LET r == resQ'[Len(resQ')]
                  IN \/ /\ r.type = "WorkflowDetailLoaded"
                        /\ r.workflow = DefaultWorkflow
                        /\ r.cmd = wcmd.id
                     \/ r.type = "WorkflowDetailError"
    ]_vars

\* the order of the filter cycle
FilterOrder ==
  << None, Some("Running"), Some("Completed"), Some("Failed"), Some("Canceled"),
     Some("All") >>

\* list Results that may be applied between two presses ("none": no Result)
ResultsBetween ==
  { [type |-> "none"],
    WorkflowsLoaded(Page(MaxItems), << >>, 0),
    WorkflowsError(<< "Failed to load workflows: ", "unavailable" >>, 0) }

PressThenApply(a, r) ==
  LET a1 == handle_key(a, "f")
  IN IF r.type = "none" THEN a1 ELSE ApplyResult(a1, r)

SixPresses(a, r) ==
  PressThenApply(PressThenApply(PressThenApply(
    PressThenApply(PressThenApply(PressThenApply(a, r), r), r), r), r), r)

\* C13: in a run of 'f' presses the filter after k presses is the k-th value
\* of the order None, Running, Completed, Failed, Canceled, All, None, ...
\* (results of the refreshes are applied in between), and from every state
\* six more presses, with or without Results applied after each, give back
\* the filter of that state.
C13_FilterCycle ==
  /\ wl.active_filter = FilterOrder[(nkeys % 6) + 1]
  /\ \A r \in ResultsBetween :
       SixPresses(AppState, r).wl.active_filter = wl.active_filter

\* Six presses have been made, the Results of all seven refreshes have been
\* applied, and the filter is None again.
C13_Witness ==
  /\ nkeys = 6
  /\ wl.active_filter = None
  /\ Len(applied) = 7

\* the list of the current screen: its number of rows and its selection
Rows ==
  CASE current_screen = "Workflows" -> Len(wl.items)
    [] current_screen = "Namespaces" -> Len(nl.items)
    [] current_screen = "WorkflowDetail" -> Len(dt.history)
    [] OTHER -> 0

Selection ==
  CASE current_screen = "Workflows" -> wl.selected
    [] current_screen = "Namespaces" -> nl.selected
    [] current_screen = "WorkflowDetail" -> dt.selected
    [] OTHER -> None

CircularNext(n, i) == IF i = n - 1 THEN 0 ELSE i + 1
CircularPrevious(n, i) == IF i = 0 THEN n - 1 ELSE i - 1

\* C14: on each of the three lists, a next key moves the selection from
\* index i of n >= 1 rows to i+1, and from n-1 to 0; a previous key moves it
\* to i-1, and from 0 to n-1; on an empty list both leave the selection as it
\* is.  Neither changes the rows.
C14_CircularSelection ==
  [][ /\ SelectNextKey =>
           /\ Rows' = Rows
           /\ IF Rows = 0 THEN Selection' = Selection
              ELSE (Selection # None /\ Selection[1] < Rows)
                     => Selection' = Some(CircularNext(Rows, Selection[1]))
      /\ SelectPreviousKey =>
           /\ Rows' = Rows
           /\ IF Rows = 0 THEN Selection' = Selection
              ELSE (Selection # None /\ Selection[1] < Rows)
                     => Selection' = Some(CircularPrevious(Rows, Selection[1]))
    ]_vars

\* Two selection keys have been dispatched on a list of three rows, and the
\* first row is selected.
C14_Witness ==
  /\ nkeys = 2
  /\ cmdQ = << >>
  /\ current_screen = "Namespaces"
  /\ Rows = 3
  /\ Selection = Some(0)

\* the atom a filter contributes to the query (none for None and All)
FilterAtom(f) ==
  CASE f = Some("Running") -> << "ExecutionStatus = 'Running'" >>
    [] f = Some("Completed") -> << "ExecutionStatus = 'Completed'" >>
    [] f = Some("Failed") -> << "ExecutionStatus = 'Failed'" >>
    [] f = Some("Canceled") -> << "ExecutionStatus = 'Canceled'" >>
    [] OTHER -> << >>

\* the composition the claim describes
Composed(f, q) ==
  IF FilterAtom(f) = << >> THEN q
  ELSE IF q = << >> THEN FilterAtom(f)
  ELSE FilterAtom(f) \o << " AND " >> \o q

\* C15: the query sent by a refresh is the filter atom, then " AND ", then
\* the free-text query; one part alone when only one is present (None and
\* All give no atom); the empty string when neither is.  Filter Running with
\* query WorkflowType='Foo' gives
\* ExecutionStatus = 'Running' AND WorkflowType='Foo'.
C15_QueryComposition ==
  [][ /\ get_query(wl) = Composed(wl.active_filter, wl.query)
      /\ get_query([wl EXCEPT !.active_filter = Some("Running"),
                              !.query = << "WorkflowType='Foo'" >>])
           = << "ExecutionStatus = 'Running'", " AND ", "WorkflowType='Foo'" >>
      /\ (RefreshKey /\ current_screen = "Workflows") =>
           /\ Len(cmdQ') = Len(cmdQ) + 1
           /\ cmdQ'[Len(cmdQ')].type = "RefreshWorkflows"
           /\ cmdQ'[Len(cmdQ')].query = Composed(wl.active_filter, wl.query)
    ]_vars

\* A refresh key has sent the query of the scenario.
C15_Witness ==
  /\ nkeys >= 1
  /\ wl.active_filter = Some("Running")
  /\ cmdQ # << >>
  /\ cmdQ[Len(cmdQ)].type = "RefreshWorkflows"
  /\ cmdQ[Len(cmdQ)].query
       = << "ExecutionStatus = 'Running'", " AND ", "WorkflowType='Foo'" >>

\* the condition the claim describes, for a list state s
Due(s) ==
  /\ s.auto_refresh_enabled
  /\ ~s.loading
  /\ s.last_refresh = None \/ s.last_refresh[1] >= auto_refresh_interval_secs

\* C16: should_refresh is true exactly when the timer is enabled, the list
\* is not loading, and the list was never refreshed or the whole seconds
\* since the last refresh have reached the interval; the main loop sends its
\* automatic refresh exactly then.  With interval 5 and 6 seconds elapsed it
\* is due when enabled and not loading, not due when loading, and never due
\* when disabled.
C16_AutoRefreshDue ==
  [][ /\ should_refresh(wl) = Due(wl)
      /\ auto_refresh_interval_secs = 5
      /\ LET s == [wl EXCEPT !.auto_refresh_enabled = TRUE, !.loading = FALSE,
                             !.last_refresh = Some(6)]
         IN /\ should_refresh(s)
            /\ ~should_refresh([s EXCEPT !.loading = TRUE])
            /\ ~should_refresh([s EXCEPT !.auto_refresh_enabled = FALSE])
      /\ (AutoRefresh /\ current_screen = "Workflows") =>
           IF Due(wl)
             THEN /\ Len(cmdQ') = Len(cmdQ) + 1
                  /\ cmdQ'[Len(cmdQ')].type = "RefreshWorkflows"
                  /\ wl'.loading
             ELSE UNCHANGED << cmdQ, wl >>
    ]_vars

\* Before any keystroke the main loop has sent a refresh by itself, 6
\* seconds after the last one.
C16_Witness ==
  /\ nkeys = 0
  /\ wl.auto_refresh_enabled
  /\ wl.last_refresh = Some(6)
  /\ wl.loading
  /\ Len(cmdQ) = 1
  /\ cmdQ[1].type = "RefreshWorkflows"

\* C17: after a failed connection the application starts and keeps running
\* until the operator quits, and a refresh the operator asks for is under
\* way: whenever the workflow list shows loading, a list command is in the
\* command channel, in the worker's hands, or has its Result waiting to be
\* applied.
C17_FailedConnectRecoverable ==
  (connection_status[1] = "Error" /\ mpc # "done") =>
    /\ running
    /\ wl.loading => OutstandingListCommands >= 1

\* C18: current_namespace changes only in the step in which the main loop
\* applies a NamespaceSwitched Result, and then to the namespace the Result
\* names; no keystroke (Enter on the namespace list included: it enqueues
\* SwitchNamespace only) and no other Result changes it.
C18_NamespaceChangesOnSwitched ==
  [][ /\ current_namespace' # current_namespace
           => /\ Applies({"NamespaceSwitched"})
              /\ current_namespace' = Head(resQ).namespace
      /\ \A key \in Keys :
           handle_key(AppState, key).current_namespace = current_namespace
      /\ (current_screen = "Namespaces" /\ selected_item(nl.items, nl.selected) # None)
           => LET a == handle_key(AppState, "Enter")
              IN /\ Len(a.out) = 1
                 /\ a.out[1].type = "SwitchNamespace"
    ]_vars

\* The operator switched to another namespace: the Result of the
\* SwitchNamespace command has been applied.
C18_Witness ==
  /\ current_namespace # InitialNamespace
  /\ applied # << >>
  /\ applied[Len(applied)].type = "NamespaceSwitched"

\* C19: whenever the detail view is loading or holds an error, its subject
\* (workflow) is None.
C19_SubjectNoneWhileLoadingOrError ==
  (dt.loading \/ dt.error # None) => dt.workflow = None

\* C20: the worker loop has ended only if the sender of the command channel
\* is gone (the main loop has returned) and every command enqueued has been
\* taken; while the sender is alive it has not ended, whatever the remote
\* calls returned; and once the sender is gone and the remote calls keep
\* returning, it takes the commands still queued (their Results go nowhere)
\* and ends.
C20_WorkerTermination ==
  /\ [](wpc = "exited" => (mpc = "done" /\ cmdQ = << >> /\ Consumed = nsent))
  /\ [][wpc' = "exited" => wpc \in {"recv", "exited"}]_vars
  /\ (mpc = "done" /\ rx_open) ~> (wpc = "exited")

\* The worker has ended after taking a command whose Result it could not
\* deliver or did not produce.
C20_Witness ==
  /\ wpc = "exited"
  /\ nsent >= 2
  /\ Len(emitted) < nsent

\* C21: applying WorkflowsLoaded replaces items and next_page_token with the
\* Result's values, clears loading and error, stamps last_refresh, selects
\* index 0 when the new items are non-empty and None when they are empty,
\* and leaves prev_page_tokens, current_page, query and filter unchanged.
C21_LoadedReplacesPage ==
  [][ Applies({"WorkflowsLoaded"}) =>
        /\ wl'.items = Head(resQ).workflows
        /\ wl'.next_page_token = Head(resQ).next_page_token
        /\ wl'.loading = FALSE
        /\ wl'.error = None
        /\ wl'.last_refresh = Some(0)
        /\ wl'.selected = IF Head(resQ).workflows # << >> THEN Some(0) ELSE None
        /\ wl'.prev_page_tokens = wl.prev_page_tokens
        /\ wl'.current_page = wl.current_page
        /\ wl'.query = wl.query
        /\ wl'.active_filter = wl.active_filter
    ]_vars

\* the workflow list has the keyboard in normal mode
OnWorkflowList == current_screen = "Workflows" /\ ~wl.input_mode

\* C22: on the workflow list a Next-page key ('n' or Right) is accepted
\* exactly when next_page_token is non-empty and loading is false; accepted,
\* it sets loading, pushes one placeholder onto prev_page_tokens, adds one to
\* current_page and enqueues exactly one LoadNextPage with the composed query
\* and the current next_page_token, changing nothing else; not accepted, it
\* enqueues nothing and changes nothing.
C22_NextPageKey ==
  OnWorkflowList =>
    \A key \in {"n", "Right"} :
      LET a == handle_key(AppState, key)
      IN IF wl.next_page_token # << >> /\ ~wl.loading
           THEN /\ a.wl = [wl EXCEPT !.loading = TRUE,
                                     !.prev_page_tokens = Append(wl.prev_page_tokens, << >>),
                                     !.current_page = wl.current_page + 1]
                /\ a.out = << LoadNextPage(get_query(wl), wl.next_page_token) >>
                /\ a = [AppState EXCEPT !.wl = a.wl, !.out = a.out]
           ELSE a = AppState

\* A Next-page key has been accepted: the list is on page 2, loading, and
\* its LoadNextPage is on the way to the worker.
C22_Witness ==
  /\ wl.current_page = 2
  /\ wl.prev_page_tokens = << << >> >>
  /\ wl.loading
  /\ cmdQ # << >>
  /\ cmdQ[Len(cmdQ)].type = "LoadNextPage"
  /\ cmdQ[Len(cmdQ)].page_token = wl.next_page_token

\* C23: on the workflow list a Previous-page key ('p' or Left) is accepted
\* exactly when prev_page_tokens is non-empty and loading is false; accepted,
\* it sets loading, pops one entry, lowers current_page by one but not below
\* 1, and enqueues exactly one command, which the worker runs as the composed
\* query with an empty page token; not accepted, it enqueues nothing and
\* changes nothing.
C23_PreviousPageKey ==
  OnWorkflowList =>
    \A key \in {"p", "Left"} :
      LET a == handle_key(AppState, key)
      IN IF wl.prev_page_tokens # << >> /\ ~wl.loading
           THEN /\ a.wl = [wl EXCEPT
                             !.loading = TRUE,
                             !.prev_page_tokens =
                                SubSeq(wl.prev_page_tokens, 1, Len(wl.prev_page_tokens) - 1),
                             !.current_page =
                                IF wl.current_page > 1 THEN wl.current_page - 1 ELSE 1]
                /\ Len(a.out) = 1
                /\ a.out[1].type \in ListCmdTypes
                /\ ListRequest(a.out[1]) = [query |-> get_query(wl), page_token |-> << >>]
                /\ a = [AppState EXCEPT !.wl = a.wl, !.out = a.out]
           ELSE a = AppState

\* A Previous-page key has been accepted on page 2: the list is back on
\* page 1 and the worker is running the command from the beginning.
C23_Witness ==
  /\ advances >= 1
  /\ wl.current_page = 1
  /\ wl.prev_page_tokens = << >>
  /\ wpc = "list"
  /\ wcmd.type = "LoadPreviousPage"
  /\ ListRequest(wcmd).page_token = << >>

\* what a resetting keystroke leaves behind: page 1, no way back, loading,
\* and one RefreshWorkflows with the query composed after the mutation
ResetDone(a) ==
  /\ a.wl.current_page = 1
  /\ a.wl.prev_page_tokens = << >>
  /\ a.wl.loading
  /\ a.out = << RefreshWorkflows(Composed(a.wl.active_filter, a.wl.query)) >>

\* C24: on the workflow list 'f' (filter advanced one step), 'c' (filter
\* and query cleared) and 'r' (filter and query kept), and in the search box
\* Enter (query kept as typed, input mode left), leave current_page = 1 and
\* prev_page_tokens empty, set loading, and enqueue exactly one
\* RefreshWorkflows with the query composed from filter and free text as
\* they are after the keystroke.
C24_MutationResetsPaging ==
  /\ OnWorkflowList =>
       /\ LET a == handle_key(AppState, "f")
          IN /\ ResetDone(a)
             /\ a.wl.active_filter # wl.active_filter
             /\ a.wl.query = wl.query
       /\ LET a == handle_key(AppState, "c")
          IN /\ ResetDone(a)
             /\ a.wl.active_filter = None
             /\ a.wl.query = << >>
       /\ LET a == handle_key(AppState, "r")
          IN /\ ResetDone(a)
             /\ a.wl.active_filter = wl.active_filter
             /\ a.wl.query = wl.query
  /\ (current_screen = "Workflows" /\ wl.input_mode) =>
       LET a == handle_key(AppState, "Enter")
       IN /\ ResetDone(a)
          /\ ~a.wl.input_mode
          /\ a.wl.active_filter = wl.active_filter
          /\ a.wl.query = wl.query

\* The list was on page 2 when 'r', 'f' or 'c' was pressed: the
\* LoadNextPage is still with the worker, the refresh is queued behind it,
\* and the list is on page 1 with no way back.
C24_Witness ==
  /\ wcmd.type = "LoadNextPage"
  /\ Len(cmdQ) = 1
  /\ cmdQ[1].type = "RefreshWorkflows"
  /\ wl.current_page = 1
  /\ wl.prev_page_tokens = << >>
  /\ wl.loading

\* C25: the auto-refresh check of a main-loop iteration fires only on the
\* workflow list and only when due; when it fires it sets loading and
\* enqueues exactly one RefreshWorkflows with the composed query, and leaves
\* every other field of the list (current_page, prev_page_tokens, items,
\* next_page_token, selection, filter, query) as it was; when it does not
\* fire nothing changes and nothing is enqueued.
C25_AutoRefreshKeepsPaging ==
  [][ AutoRefresh =>
        /\ IF current_screen = "Workflows" /\ Due(wl)
             THEN /\ wl' = [wl EXCEPT !.loading = TRUE]
                  /\ rx_open =>
                       cmdQ' = Append(cmdQ,
                                 [RefreshWorkflows(Composed(wl.active_filter, wl.query))
                                    EXCEPT !.id = nsent + 1])
             ELSE UNCHANGED << wl, cmdQ >>
        /\ UNCHANGED << running, current_screen, dt, nl, current_namespace >>
    ]_vars

\* The automatic refresh has fired on page 2: its RefreshWorkflows is
\* queued and the list is still on page 2 with its way back.
C25_Witness ==
  /\ wl.auto_refresh_enabled
  /\ wl.current_page = 2
  /\ wl.prev_page_tokens # << >>
  /\ wl.loading
  /\ cmdQ # << >>
  /\ cmdQ[Len(cmdQ)].type = "RefreshWorkflows"

\* a dialog has the keyboard on the detail screen
DialogOpen ==
  /\ current_screen = "WorkflowDetail"
  /\ ~dt.show_event_detail
  /\ dt.success_message = None
  /\ dt.show_dialog # None

\* the mutate command a confirmed dialog stands for
DialogCommandType ==
  CASE dt.show_dialog = Some("Terminate") -> "TerminateWorkflow"
    [] dt.show_dialog = Some("Cancel") -> "CancelWorkflow"
    [] dt.show_dialog = Some("Signal") -> "SignalWorkflow"
    [] OTHER -> "NoCmd"

\* C26: Enter in an open dialog (Terminate with any input, Cancel, Signal
\* with a non-empty input) enqueues exactly one command of the dialog's
\* operation, addressed to the workflow shown when there is one, Terminate
\* with the typed reason or "Terminated by user" when nothing was typed, and
\* leaves the dialog closed and the input buffer empty.
C26_ConfirmSendsAndCloses ==
  (DialogOpen /\ ~(dt.show_dialog = Some("Signal") /\ dt.dialog_input = << >>)) =>
    LET a == handle_key(AppState, "Enter")
    IN /\ a.dt.show_dialog = None
       /\ a.dt.dialog_input = << >>
       /\ Len(a.out) = 1
       /\ a.out[1].type = DialogCommandType
       /\ (dt.workflow # None /\ dt.workflow[1].execution # None) =>
            /\ a.out[1].workflow_id = dt.workflow[1].execution[1].workflow_id
            /\ a.out[1].run_id = dt.workflow[1].execution[1].run_id
       /\ dt.show_dialog = Some("Terminate") =>
            a.out[1].reason = IF dt.dialog_input = << >>
                                THEN << "Terminated by user" >>
                                ELSE dt.dialog_input
       /\ dt.show_dialog = Some("Signal") => a.out[1].signal_name = dt.dialog_input

\* the order of the steps of one iteration of App::run: Results are applied
\* only in the drain; the drain is left only with the result channel empty,
\* by the auto-refresh check (and the draw), for the poll; a key is
\* dispatched only from the poll, one per iteration; the loop is left only
\* from the poll; and a cleared running flag ends the loop.
IterationOrder ==
  /\ applied' # applied => (mpc = "process_results" /\ mpc' = mpc)
  /\ (mpc = "process_results" /\ mpc' # mpc)
       => (resQ = << >> /\ mpc' = "poll" /\ AutoRefresh)
  /\ nkeys' # nkeys => (mpc = "poll" /\ nkeys' = nkeys + 1 /\ mpc' # "poll")
  /\ (mpc = "poll" /\ mpc' # mpc) => mpc' \in {"process_results", "done"}
  /\ (mpc' = "done" /\ mpc # "done") => mpc = "poll"
  /\ ~running' => mpc' = "done"

\* C27 (as stated): each iteration drains the result channel, then checks
\* auto-refresh and renders, then polls at most one event and dispatches it
\* if it is a key; and the loop exits only in a step in which a keystroke
\* has set running to false.
C27_IterationOrder ==
  [][ /\ IterationOrder
      /\ (mpc' = "done" /\ mpc # "done") => (nkeys' = nkeys + 1 /\ running /\ ~running')
    ]_vars

\* C27 (amended): the same order of steps; the loop exits only in a step in
\* which a keystroke has set running to false, or in a step in which
\* drawing or polling the terminal failed, which changes nothing else.
C27_IterationOrderOrError ==
  [][ /\ IterationOrder
      /\ (mpc' = "done" /\ mpc # "done")
           => \/ nkeys' = nkeys + 1 /\ running /\ ~running'
              \/ UNCHANGED << mainVars, cmdQ, resQ, nkeys, applied >>
    ]_vars

\* The operator has quit with a keystroke after a Result was applied and
\* the automatic check ran.
C27_Witness ==
  /\ mpc = "done"
  /\ ~running
  /\ nkeys >= 1
  /\ applied # << >>

\* ---------------------------------------------------------------------- C28
\* C28: in every reachable state current_page = prev_page_tokens.len() + 1,
\* whatever interleaving of Next/Previous-page presses, filter, search,
\* clear and refresh keystrokes, auto-refreshes, namespace switches and
\* applied Results led to it.
C28_PageMatchesStack ==
  wl.current_page = Len(wl.prev_page_tokens) + 1

\* The list went to page 2 and the page asked for has been applied: the
\* counter is 2 over a stack of one placeholder.
C28_Witness ==
  /\ wl.current_page = 2
  /\ Len(wl.prev_page_tokens) = 1
  /\ ~wl.loading
  /\ \E i \in 1..Len(applied) : applied[i].cmd >= 2 /\ applied[i].type = "WorkflowsLoaded"

\* ---------------------------------------------------------------------- C29
\* the namespace the worker's client is in when it executes the i-th queued
\* command: that of the last SwitchNamespace ahead of it in the channel
NamespaceAt(i) ==
  LET sw == { j \in 1..(i - 1) : cmdQ[j].type = "SwitchNamespace" }
  IN IF sw = {}
       THEN client_namespace
       ELSE cmdQ[CHOOSE j \in sw : \A k \in sw : k <= j].namespace

\* C29: the page_token of every LoadNextPage(query, page_token) on its way
\* to or at the worker is the continuation token the server returned for a
\* list call with that same query in the namespace the worker executes the
\* command in.
C29_TokenMatchesQuery ==
  /\ \A i \in 1..Len(cmdQ) :
        cmdQ[i].type = "LoadNextPage"
          => cmdQ[i].page_token = Token(cmdQ[i].query, NamespaceAt(i))
  /\ (wpc = "list" /\ wcmd.type = "LoadNextPage")
        => wcmd.page_token = Token(wcmd.query, client_namespace)

\* ---------------------------------------------------------------------- C30
\* the commands the step puts on the command channel
Enqueued == { i \in 1..Len(cmdQ') : cmdQ'[i].id > nsent }

\* C30: every TerminateWorkflow, CancelWorkflow and SignalWorkflow that is
\* enqueued carries the workflow id and run id of the workflow most recently
\* requested with ViewWorkflowDetail -- also while the detail of that
\* workflow is still loading or has failed to load.
C30_MutateTargetsRequested ==
  [][ \A i \in Enqueued :
        cmdQ'[i].type \in MutateCmdTypes
          => /\ requested # None
             /\ cmdQ'[i].workflow_id = requested[1].workflow_id
             /\ cmdQ'[i].run_id = requested[1].run_id ]_vars

\* ---------------------------------------------------------------------- C31
\* the completed list calls that answered command c
FetchesOf(c) == { i \in 1..Len(fetched) : fetched[i].cmd = c }

FilterAtoms == { FilterQuery(f)[1] : f \in WorkflowFilters \ {"All"} }

\* the free-text part of a composed query
FreeText(q) == SelectSeq(q, LAMBDA x : x \notin FilterAtoms \cup {" AND "})

\* C32: the free-text part of the query of every list command enqueued is
\* empty or a text the operator confirmed with Enter in the search box, and
\* while the search box has the focus no list command is enqueued except by
\* that Enter.
C32_OnlyCommittedTextSent ==
  [][ \A i \in Enqueued :
        cmdQ'[i].type \in ListCmdTypes
          => /\ \/ FreeText(cmdQ'[i].query) = << >>
                \/ FreeText(cmdQ'[i].query) \in committed'
             /\ wl.input_mode => (nkeys' = nkeys + 1 /\ ~wl'.input_mode) ]_vars

\* ---------------------------------------------------------------------- C33
\* a command of one of the types cs is still unanswered: it waits in the
\* command channel, the worker is executing it, or its Result (of one of
\* the types rs) waits in the result channel
Unanswered(cs, rs) ==
  \/ \E i \in 1..Len(cmdQ) : cmdQ[i].type \in cs
  \/ wcmd.type \in cs
  \/ \E i \in 1..Len(resQ) : resQ[i].type \in rs

\* C33: for the workflow list, the namespace list and the detail view,
\* loading is true only while a command of that view is still unanswered.
C33_LoadingHasOwner ==
  /\ wl.loading => Unanswered(ListCmdTypes, ListResultTypes)
  /\ nl.loading => Unanswered({"RefreshNamespaces"}, {"NamespacesLoaded", "NamespacesError"})
  /\ dt.loading => Unanswered({"ViewWorkflowDetail"},
                              {"WorkflowDetailLoaded", "WorkflowDetailError"})

\* ---------------------------------------------------------------------- C34
\* the positions in applied of the pages applied to the workflow list
LoadedAt == { i \in 1..Len(applied) : applied[i].type = "WorkflowsLoaded" }

\* the command whose page is on display: the last WorkflowsLoaded applied
DisplayedCmd == applied[CHOOSE i \in LoadedAt : \A j \in LoadedAt : j <= i].cmd

\* the page on display was fetched with an empty page token
FirstPageDisplayed ==
  /\ LoadedAt # {}
  /\ \E i \in FetchesOf(DisplayedCmd) : fetched[i].page_token = << >>

\* C34: while the page on display is the Result of a first-page request
\* (RefreshWorkflows or LoadPreviousPage, executed with an empty page token),
\* current_page is 1.
C34_FirstPageIsPageOne ==
  FirstPageDisplayed => wl.current_page = 1

\* ---------------------------------------------------------------------- C35
\* C35: applying a Result -- the mutate Result of an earlier confirmed
\* operation included -- leaves an open operation dialog and its input
\* buffer as they are; only keystrokes change them.
C35_ResultsLeaveDialog ==
  [][ (applied' # applied /\ dt.show_dialog # None)
        => /\ dt'.show_dialog = dt.show_dialog
           /\ dt'.dialog_input = dt.dialog_input ]_vars

\* ---------------------------------------------------------------------- C36
\* C36: the detail view has at most one modal: an operation dialog is never
\* open together with the event-detail overlay, nor while a success banner
\* is set.
C36_OneModal ==
  dt.show_dialog # None => (~dt.show_event_detail /\ dt.success_message = None)

\* A terminate or cancel was confirmed and a fourth key was pressed on the
\* detail screen before its success Result was applied; with an event
\* selected and no overlay open that key opened a new dialog, and the banner
\* is now up without it.
C36_Witness ==
  /\ current_screen = "WorkflowDetail"
  /\ nkeys = 4
  /\ dt.success_message # None
  /\ dt.success_message[1][1] = "Workflow "
  /\ selected_item(dt.history, dt.selected) # None
  /\ ~dt.show_event_detail
  /\ dt.show_dialog = None

\* ---------------------------------------------------------------------- C37
\* the step in which the worker takes a SwitchNamespace from the channel
TakesSwitch ==
  /\ cmdQ # << >>
  /\ Head(cmdQ).type = "SwitchNamespace"
  /\ cmdQ' = Tail(cmdQ)

\* C37: applying NamespaceSwitched sets current_namespace to the Result's
\* namespace, sets the workflow list's loading flag, enqueues exactly one
\* RefreshWorkflows with the composed query and shows the workflow list; the
\* worker answers every SwitchNamespace with NamespaceSwitched for that
\* namespace, changes its namespace then and only then, and runs its list
\* calls in the namespace it holds.
C37_SwitchProtocol ==
  [][ /\ Applies({"NamespaceSwitched"})
           => /\ current_namespace' = Head(resQ).namespace
              /\ wl'.loading
              /\ current_screen' = "Workflows"
              /\ Cardinality(Enqueued) = 1
              /\ \A i \in Enqueued :
                    /\ cmdQ'[i].type = "RefreshWorkflows"
                    /\ cmdQ'[i].query = Composed(wl.active_filter, wl.query)
      /\ TakesSwitch
           => /\ client_namespace' = Head(cmdQ).namespace
              /\ result_rx_open
                   => /\ Len(resQ') = Len(resQ) + 1
                      /\ resQ'[Len(resQ')].type = "NamespaceSwitched"
                      /\ resQ'[Len(resQ')].namespace = Head(cmdQ).namespace
                      /\ resQ'[Len(resQ')].cmd = Head(cmdQ).id
      /\ client_namespace' # client_namespace => TakesSwitch
      /\ fetched' # fetched
           => fetched'[Len(fetched')].namespace = client_namespace
    ]_vars

\* The switch has been carried out on both sides: the worker holds the new
\* namespace, the main loop has applied NamespaceSwitched and its refresh
\* is on the way.
C37_Witness ==
  /\ current_namespace # InitialNamespace
  /\ client_namespace = current_namespace
  /\ current_screen = "Workflows"
  /\ wl.loading
  /\ applied # << >>
  /\ applied[Len(applied)].type = "NamespaceSwitched"
  /\ cmdQ # << >>
  /\ cmdQ[Len(cmdQ)].type = "RefreshWorkflows"

\* ---------------------------------------------------------------------- C38
\* the step in which the auto-refresh check of App::run sends its refresh
AutoFires ==
  /\ mpc = "process_results"
  /\ mpc' = "poll"
  /\ Enqueued # {}

\* C38: when the automatic refresh fires again, at least
\* auto_refresh_interval_secs seconds have passed since it fired before --
\* whether the earlier refresh succeeded or failed -- and no list Result was
\* applied in the same main-loop iteration.
C38_AutoRefreshSpacing ==
  [][ (AutoFires /\ since_auto # None)
        => /\ since_auto[1] >= auto_refresh_interval_secs
           /\ ~drained ]_vars
====
